---- MODULE Spec2Model ----
(***************************************************************************)
(* Model of the countdown plugin (src/main.py): the in-memory store        *)
(* self.countdowns, its persisted snapshot, the add / delete commands and  *)
(* the reminder scan (check_reminders) with its suspension point inside    *)
(* send_reminder; saves that fail, a process killed inside save_data and   *)
(* started again, deliveries that raise, terminate, and the owner keys.    *)
(*                                                                         *)
(* Strings whose characters matter (date strings, user keys) are sequences *)
(* of one-character strings; opaque strings (names, messages) are plain    *)
(* strings.                                                                *)
(***************************************************************************)
EXTENDS Integers, Sequences, FiniteSets, Bags, TLC

\* ------------------------------------------------------------------ bounds
\* config "max_countdowns" (default 50 in the source), kept small here
max_count == 2
\* total number of records ever created (bounds the record identities), under
\* SpecStore and under the other specifications
StoreCreates == 3
MaxCreates == 2
\* longest user id and group id of the owner keys under test
MaxIdLen == 2

\* ----------------------------------------------------------------- strings
Range(s) == {s[i] : i \in DOMAIN s}

Digits == {"0", "1", "2", "3", "4", "5", "6", "7", "8", "9"}

\* code point of a character, as Python's str comparison uses it
CharCode(c) ==
    CASE c = "-" -> 45 [] c = "/" -> 47 [] c = "0" -> 48 [] c = "1" -> 49
      [] c = "2" -> 50 [] c = "3" -> 51 [] c = "4" -> 52 [] c = "5" -> 53
      [] c = "6" -> 54 [] c = "7" -> 55 [] c = "8" -> 56 [] c = "9" -> 57

DigitVal(c) == CharCode(c) - 48

\* s < t for Python strings: lexicographic by code point
StrLess(s, t) ==
    LET n    == IF Len(s) < Len(t) THEN Len(s) ELSE Len(t)
        diff == {i \in 1..n : s[i] # t[i]}
    IN IF diff = {} THEN Len(s) < Len(t)
       ELSE LET i == CHOOSE j \in diff : \A k \in diff : j <= k
            IN CharCode(s[i]) < CharCode(t[i])

IsDigits(s) == \A i \in DOMAIN s : s[i] \in Digits

RECURSIVE NumVal(_)
NumVal(s) == IF s = <<>> THEN 0
             ELSE 10 * NumVal(SubSeq(s, 1, Len(s) - 1)) + DigitVal(s[Len(s)])

\* ------------------------------------------------------------------- dates
IsLeap(y) == (y % 4 = 0) /\ ((y % 100 # 0) \/ (y % 400 = 0))

DaysInMonth(y, m) ==
    IF m = 2 THEN (IF IsLeap(y) THEN 29 ELSE 28)
    ELSE IF m \in {4, 6, 9, 11} THEN 30 ELSE 31

RECURSIVE DaysBeforeMonth(_, _)
DaysBeforeMonth(y, m) ==
    IF m = 1 THEN 0 ELSE DaysBeforeMonth(y, m - 1) + DaysInMonth(y, m - 1)

\* datetime.date.toordinal: the day number of a calendar date
Ordinal(y, m, d) ==
    365 * (y - 1) + ((y - 1) \div 4) - ((y - 1) \div 100) + ((y - 1) \div 400)
      + DaysBeforeMonth(y, m) + d

\* the outcome of a strptime call that raises ValueError
ValueError == Ordinal(1, 1, 1) - 1

\* datetime.strptime(s, "%Y-%m-%d").date(), as a day number: four digits, a
\* month of one or two digits in 1..12, a day of one or two digits in 1..31,
\* separated by "-", and a day that exists in that month
ParseDate(s) ==
    LET dashes == {i \in DOMAIN s : s[i] = "-"} IN
    IF Cardinality(dashes) # 2 THEN ValueError
    ELSE
      LET p1 == CHOOSE i \in dashes : \A j \in dashes : i <= j
          p2 == CHOOSE i \in dashes : \A j \in dashes : j <= i
          Y  == SubSeq(s, 1, p1 - 1)
          M  == SubSeq(s, p1 + 1, p2 - 1)
          D  == SubSeq(s, p2 + 1, Len(s))
      IN IF /\ Len(Y) = 4 /\ IsDigits(Y)
            /\ Len(M) \in {1, 2} /\ IsDigits(M) /\ NumVal(M) \in 1..12
            /\ Len(D) \in {1, 2} /\ IsDigits(D) /\ NumVal(D) \in 1..31
            /\ NumVal(Y) >= 1
            /\ NumVal(D) <= DaysInMonth(NumVal(Y), NumVal(M))
         THEN Ordinal(NumVal(Y), NumVal(M), NumVal(D))
         ELSE ValueError

\* ------------------------------------------------------------------ inputs
\* the first day of the model's clock: 2025-01-02
Day0 == Ordinal(2025, 1, 2)
\* the days of the clock beside the commands alone: that day and the next
Days == {Day0, Day0 + 1}
\* the days of the clock beside the reminder task: 7, 6 and 3 days before
\* 2025-01-09
ScanDays == {Day0, Day0 + 1, Day0 + 4}

D_0102 == <<"2", "0", "2", "5", "-", "0", "1", "-", "0", "2">>
D_019  == <<"2", "0", "2", "5", "-", "0", "1", "-", "9">>
D_0110 == <<"2", "0", "2", "5", "-", "0", "1", "-", "1", "0">>
D_0132 == <<"2", "0", "2", "5", "-", "0", "1", "-", "3", "2">>
\* the date strings a command may carry: the first day of the clock (past
\* once the clock moved), two later dates (one without zero padding) and a
\* day that does not exist
DateStrings == {D_0102, D_019, D_0110, D_0132}
\* the date strings of the commands that run beside the reminder task
ScanDates == {D_019}

Names == {"birthday", "exam"}

\* the (name, date string) pairs an add command may carry
AddInputs ==
    {<<"birthday", D_019>>, <<"birthday", D_0110>>, <<"exam", D_0102>>,
     <<"exam", D_0132>>}

\* strptime on the date strings of the model, computed once
Parsed == [s \in DateStrings |-> ParseDate(s)]
strptime(s) == Parsed[s]

\* (user_id, group_id) of the senders of commands
Senders == {<< <<"a">>, <<>> >>, << <<"a">>, <<"g">> >>}

\* config "reminder_days" (its default)
reminder_days == <<7, 3, 1>>

\* ------------------------------------------------------------------- state
VARIABLES
    countdowns,   \* self.countdowns: insertion-ordered dict, a sequence of
                  \* [k |-> user_key, v |-> list of records]
    file,         \* the data file: absent, written (data is the snapshot of
                  \* countdowns it holds) or partial (cut short)
    today,        \* datetime.now().date(), as a day number
    scan,         \* position of the reminder task inside check_reminders
    sent,         \* history: the bag of send_reminder calls, as <<uid, days_left>>
    nextUid,      \* history: identity of the next record object
    everIds,      \* history: <<user_key, id>> of every record ever created
    deleted,      \* history: identities of the records deleted so far
    lastOp,       \* history: the last command handled and its result
    plugin,       \* the process: running, terminated (terminate was handled)
                  \* or crashed (killed inside save_data)
    undelivered,  \* history: <<uid, days_left>> of the deliveries that raised
    probe         \* the owner key under test: a (user_id, group_id) pair, its
                  \* key and what send_reminder reads back from the key

vars == <<countdowns, file, today, scan, sent, nextUid, everIds, deleted, lastOp,
          plugin, undelivered, probe>>

\* ------------------------------------------------------------ dict helpers
HasKey(d, k) == \E i \in DOMAIN d : d[i].k = k

Lookup(d, k) == d[CHOOSE i \in DOMAIN d : d[i].k = k].v

SetList(d, k, l) ==
    [i \in DOMAIN d |-> IF d[i].k = k THEN [k |-> k, v |-> l] ELSE d[i]]

RemoveAt(l, i) == SubSeq(l, 1, i - 1) \o SubSeq(l, i + 1, Len(l))

\* the identities of the records a store (or a snapshot of it) holds
Uids(d) == UNION {{cd.uid : cd \in Range(d[i].v)} : i \in DOMAIN d}

\* -------------------------------------------------------------- the store
get_user_key(user_id, group_id) ==
    IF group_id # <<>> THEN user_id \o <<"_">> \o group_id ELSE user_id

Max(S) == CHOOSE x \in S : \A y \in S : y <= x

get_next_id(d, user_key) ==
    IF ~HasKey(d, user_key) THEN 1
    ELSE Max({cd.id : cd \in Range(Lookup(d, user_key))} \cup {0}) + 1

\* list.sort(key=lambda x: x['target_date']): a stable sort on the date
\* strings, compared as strings
RECURSIVE InsertByDate(_, _)
InsertByDate(sorted, x) ==
    IF sorted = <<>> THEN <<x>>
    ELSE IF StrLess(x.target_date, Head(sorted).target_date)
         THEN <<x>> \o sorted
    ELSE <<Head(sorted)>> \o InsertByDate(Tail(sorted), x)

RECURSIVE SortByDate(_)
SortByDate(l) ==
    IF l = <<>> THEN <<>>
    ELSE InsertByDate(SortByDate(SubSeq(l, 1, Len(l) - 1)), l[Len(l)])

\* the status text of a view: "expired", or "remaining N days"
Status(days_diff) ==
    IF days_diff < 0 THEN <<"expired">> ELSE <<"remaining", days_diff>>

\* one element of the list get_user_countdowns builds
View(cd, now) ==
    LET days_diff == strptime(cd.target_date) - now
    IN [id |-> cd.id, name |-> cd.name, target_date |-> cd.target_date,
        days_left |-> days_diff, remark |-> cd.remark,
        status |-> Status(days_diff)]

get_user_countdowns(d, user_key, now) ==
    IF ~HasKey(d, user_key) THEN <<>>
    ELSE LET l == Lookup(d, user_key)
         IN SortByDate([i \in 1..Len(l) |-> View(l[i], now)])

\* save_data: the write succeeds, open() fails (the file is untouched), or
\* the write fails after open() truncated the file; the error is only logged
SaveOutcomes == {"ok", "open_failed", "write_failed"}

\* the process is killed inside save_data: before open(), between open()
\* (which truncates the file) and the end of the write, or after the write
CrashOutcomes == {"crash_before", "crash_during", "crash_after"}

save_data(d, old, out) ==
    CASE out \in {"ok", "crash_after"} -> [state |-> "written", data |-> d]
      [] out \in {"open_failed", "crash_before"} -> old
      [] out \in {"write_failed", "crash_during"} ->
            [state |-> "partial", data |-> <<>>]

\* the process after a call of save_data
AfterSave(p, out) == IF out \in CrashOutcomes THEN "crashed" ELSE p

\* load_data: the content of the file; {} when the file does not exist or
\* json.load raises
load_data(f) == IF f.state = "written" THEN f.data ELSE <<>>

\* result messages of add_countdown
MsgPastDate == "target date must not be in the past"
MsgLimit    == "maximum number of countdowns reached"
MsgAdded    == "added"
MsgFormat   == "bad date format, use YYYY-MM-DD"

\* a past-date test that lets yesterday through
IsPastButYesterday(target_date, now) == target_date < now - 1

\* line 316: the past-date test
IsPast(target_date, now) == target_date < now

\* a capacity test that is off by one
AtLimitOffByOne(current_count) == current_count > max_count

\* line 323: the capacity test
AtLimit(current_count) == current_count >= max_count

\* lines 332-339: the record add_countdown builds. uid is the identity of the
\* Python object, not a field of it; 'created_date' is left out: it is
\* written here and read nowhere
NewCountdown(countdown_id, name, date_str, remark, uid) ==
    [id |-> countdown_id, name |-> name, target_date |-> date_str,
     remark |-> remark, notified_days |-> <<>>, uid |-> uid]

\* an add that replaces the records of the same name
ReplaceByName(l, countdown) ==
    Append(SelectSeq(l, LAMBDA cd : cd.name # countdown.name), countdown)

\* line 341: self.countdowns[user_key].append(countdown)
AppendCountdown(l, countdown) == Append(l, countdown)

\* add_countdown_command / add_countdown
Add(sender, name, date_str, out) ==
    LET user_key    == get_user_key(sender[1], sender[2])
        target_date == strptime(date_str)
        op(ok, msg) == [cmd |-> "add", success |-> ok, result |-> msg]
        fail(msg) ==
            /\ out = "ok"
            /\ lastOp' = op(FALSE, msg)
            /\ UNCHANGED <<countdowns, file, nextUid, everIds, plugin>>
    IN
    /\ plugin = "running"
    /\ scan.pc \in {"idle", "sending"}
    /\ IF target_date = ValueError THEN fail(MsgFormat)
       ELSE IF IsPast(target_date, today) THEN fail(MsgPastDate)
       ELSE IF AtLimit(Len(get_user_countdowns(countdowns, user_key, today)))
            THEN fail(MsgLimit)
       ELSE
         LET d1 == IF HasKey(countdowns, user_key) THEN countdowns
                   ELSE Append(countdowns, [k |-> user_key, v |-> <<>>])
             countdown_id == get_next_id(d1, user_key)
             countdown == NewCountdown(countdown_id, name, date_str, <<>>,
                                       nextUid)
             d2 == SetList(d1, user_key,
                           AppendCountdown(Lookup(d1, user_key), countdown))
         IN /\ countdowns' = d2
            /\ file' = save_data(d2, file, out)
            /\ nextUid' = nextUid + 1
            /\ everIds' = everIds \cup {<<user_key, countdown_id>>}
            /\ plugin' = AfterSave(plugin, out)
            /\ lastOp' = IF out \in CrashOutcomes THEN lastOp
                          ELSE op(TRUE, MsgAdded)
    /\ UNCHANGED <<today, scan, sent, deleted, undelivered, probe>>

\* a delete that also takes a name
IdOrNameMatches(cd, countdown_id) ==
    \/ countdown_id.kind = "id" /\ cd.id = countdown_id.id
    \/ countdown_id.kind = "name" /\ cd.name = countdown_id.name

\* line 406: cd['id'] == countdown_id; an int never equals a str
IdMatches(cd, countdown_id) ==
    countdown_id.kind = "id" /\ cd.id = countdown_id.id

\* delete_countdown_command / delete_countdown
Delete(sender, countdown_id, out) ==
    LET user_key == get_user_key(sender[1], sender[2])
        op(ok) == [cmd |-> "delete", success |-> ok, result |-> ""]
        fail ==
            /\ out = "ok"
            /\ lastOp' = op(FALSE)
            /\ UNCHANGED <<countdowns, file, deleted, plugin>>
    IN
    /\ plugin = "running"
    /\ scan.pc \in {"idle", "sending"}
    /\ IF ~HasKey(countdowns, user_key) THEN fail
       ELSE
         LET l    == Lookup(countdowns, user_key)
             hits == {i \in 1..Len(l) : IdMatches(l[i], countdown_id)}
         IN IF hits = {} THEN fail
            ELSE LET i  == CHOOSE h \in hits : \A g \in hits : h <= g
                     d2 == SetList(countdowns, user_key, RemoveAt(l, i))
                 IN /\ countdowns' = d2
                    /\ file' = save_data(d2, file, out)
                    /\ deleted' = deleted \cup {l[i].uid}
                    /\ plugin' = AfterSave(plugin, out)
                    /\ lastOp' = IF out \in CrashOutcomes THEN lastOp
                                  ELSE op(TRUE)
    /\ UNCHANGED <<today, scan, sent, nextUid, everIds, undelivered, probe>>

\* the arguments a delete command may carry: an id, or (as text) a name
DeleteKeys(maxId) ==
    {[kind |-> "id", id |-> i, name |-> ""] : i \in 1..maxId}
      \cup {[kind |-> "name", id |-> 0, name |-> n] : n \in Names}

\* datetime.now() returns another day
Tick(d) ==
    /\ d # today
    /\ today' = d
    /\ UNCHANGED <<countdowns, file, scan, sent, nextUid, everIds, deleted, lastOp,
                 plugin, undelivered, probe>>

\* ------------------------------------------------------ the reminder scan
\* the reminder task between two scans. Inside a scan: today is the date line
\* 428 read, size the size of the dict when its iterator was made, ki and li
\* the positions of the dict and list iterators, cd (the identity of the
\* record), days_left and notified the loop's local variables
\* Between two scans: failed tells whether the last scan was cut short by an
\* exception, sleep is the asyncio.sleep the task is in (0 before its first
\* scan). present is history: the records the store held when the scan began
Idle ==
    [pc |-> "idle", today |-> 0, size |-> 0, ki |-> 0, li |-> 0, cd |-> 0,
     days_left |-> 0, notified |-> <<>>, failed |-> FALSE, sleep |-> 0,
     present |-> {}]

\* line 419: the pause after a scan; line 422: the pause after an exception
Interval == 3600
Backoff  == 300

\* lines 443-444: check_reminders catches every Exception of its loop, so
\* none of them reaches reminder_task
Escapes(failed) == FALSE

\* lines 416-422: the sleep of reminder_task after check_reminders returned
\* or raised
NextSleep(raised) == IF raised THEN Backoff ELSE Interval

\* a task that ends when a scan failed
AfterScanExit(failed) ==
    IF failed THEN [Idle EXCEPT !.pc = "exited", !.failed = TRUE]
    ELSE [Idle EXCEPT !.sleep = NextSleep(Escapes(failed))]

\* lines 415-422: the task after a scan: asleep, then round the loop again
AfterScan(failed) ==
    [Idle EXCEPT !.failed = failed, !.sleep = NextSleep(Escapes(failed))]

\* a scan that forgets the notified list
EligibleNoDedup(days_left, notified) == days_left \in Range(reminder_days)

\* a scan that catches up on a threshold it missed
EligibleCatchUp(days_left, notified) ==
    /\ \E t \in Range(reminder_days) : 0 <= days_left /\ days_left <= t
    /\ ToString(days_left) \notin Range(notified)

\* lines 435-437: days_left in reminder_days and str(days_left) not in notified
Eligible(days_left, notified) ==
    /\ days_left \in Range(reminder_days)
    /\ ToString(days_left) \notin Range(notified)

\* a mark that forgets the earlier thresholds
MarkReplace(notified, days_left) == <<ToString(days_left)>>

\* line 440: notified + [str(days_left)]
MarkNotified(notified, days_left) == notified \o <<ToString(days_left)>>

\* reminder_task calls check_reminders: lines 427-430, up to the creation of
\* the iterator over self.countdowns.items()
ScanStart ==
    /\ scan.pc = "idle"
    /\ plugin # "crashed"
    /\ scan' = [Idle EXCEPT !.pc = "owner", !.today = today,
                            !.size = Len(countdowns),
                            !.present = Uids(countdowns)]
    /\ UNCHANGED <<countdowns, file, today, sent, nextUid, everIds, deleted, lastOp,
                 plugin, undelivered, probe>>

\* line 430: the next item of the dict iterator, which raises RuntimeError
\* when the dict changed size since the iterator was made; the except clause
\* of line 443 ends the scan
ScanOwner ==
    /\ scan.pc = "owner"
    /\ plugin # "crashed"
    /\ scan' = IF Len(countdowns) # scan.size
                 THEN AfterScan(TRUE)
               ELSE IF scan.ki < Len(countdowns)
                 THEN [scan EXCEPT !.pc = "record", !.ki = scan.ki + 1, !.li = 0]
               ELSE AfterScan(FALSE)
    /\ UNCHANGED <<countdowns, file, today, sent, nextUid, everIds, deleted, lastOp,
                 plugin, undelivered, probe>>

\* lines 431-438: the next element of the list iterator, up to the call of
\* send_reminder, which suspends in the delivery (lines 473-478)
ScanRecord ==
    /\ scan.pc = "record"
    /\ plugin # "crashed"
    /\ LET l == countdowns[scan.ki].v IN
       IF scan.li >= Len(l)
       THEN /\ scan' = [scan EXCEPT !.pc = "owner"]
            /\ sent' = sent
       ELSE
         LET cd          == l[scan.li + 1]
             target_date == strptime(cd.target_date)
             days_left   == target_date - scan.today
             notified    == cd.notified_days
         IN IF target_date = ValueError
            THEN /\ scan' = AfterScan(TRUE)
                 /\ sent' = sent
            ELSE IF Eligible(days_left, notified)
            THEN /\ scan' = [scan EXCEPT !.pc = "sending", !.li = scan.li + 1,
                                         !.cd = cd.uid, !.days_left = days_left,
                                         !.notified = notified]
                 /\ sent' = sent (+) SetToBag({<<cd.uid, days_left>>})
            ELSE /\ scan' = [scan EXCEPT !.li = scan.li + 1, !.cd = cd.uid,
                                         !.days_left = days_left,
                                         !.notified = notified]
                 /\ sent' = sent
    /\ UNCHANGED <<countdowns, file, today, nextUid, everIds, deleted, lastOp,
                 plugin, undelivered, probe>>

\* a mark that writes the record back into the store when it is gone
AssignNotifiedUpsert(d, uid, value) ==
    IF uid \in Uids(d)
    THEN [i \in DOMAIN d |->
            [k |-> d[i].k,
             v |-> [j \in 1..Len(d[i].v) |->
                      IF d[i].v[j].uid = uid
                      THEN [d[i].v[j] EXCEPT !.notified_days = value]
                      ELSE d[i].v[j]]]]
    ELSE [d EXCEPT ![1].v = Append(@, NewCountdown(0, "", <<>>, <<>>, uid))]

\* cd['notified_days'] = ... on the record object the scan holds: the store
\* changes only if that object is still in a list of the store
AssignNotified(d, uid, value) ==
    [i \in DOMAIN d |->
       [k |-> d[i].k,
        v |-> [j \in 1..Len(d[i].v) |->
                 IF d[i].v[j].uid = uid
                 THEN [d[i].v[j] EXCEPT !.notified_days = value]
                 ELSE d[i].v[j]]]]

\* lines 472-480: the delivery returns, or raises inside send_reminder
Deliveries == {"delivered", "raised"}

\* a mark that is dropped when the delivery raised
MarkIfDelivered(notified, days_left, delivery) ==
    IF delivery = "raised" THEN notified
    ELSE MarkNotified(notified, days_left)

\* lines 438-440: send_reminder returns normally whatever the delivery did
\* (lines 479-483), and line 440 runs
MarkAfter(notified, days_left, delivery) == MarkNotified(notified, days_left)

\* lines 438-441: send_reminder returns (it catches every delivery error),
\* the threshold is recorded and the store saved
Deliver(out, delivery) ==
    /\ scan.pc = "sending"
    /\ plugin # "crashed"
    /\ LET d2 == AssignNotified(countdowns, scan.cd,
                                MarkAfter(scan.notified, scan.days_left,
                                          delivery))
       IN /\ countdowns' = d2
          /\ file' = save_data(d2, file, out)
    /\ undelivered' = IF delivery = "raised"
                        THEN undelivered \cup {<<scan.cd, scan.days_left>>}
                      ELSE undelivered
    /\ scan' = [scan EXCEPT !.pc = "record"]
    /\ plugin' = AfterSave(plugin, out)
    /\ UNCHANGED <<today, sent, nextUid, everIds, deleted, lastOp, probe>>

\* ------------------------------------------------------- the specification
NoOp == [cmd |-> "none", success |-> FALSE, result |-> ""]

NoProbe == [user_id |-> <<>>, group_id |-> <<>>, key |-> <<>>,
            parsed |-> << <<>>, <<>> >>]

Init ==
    /\ countdowns = <<>>
    /\ file = [state |-> "absent", data |-> <<>>]
    /\ today = Day0
    /\ scan = Idle
    /\ sent = EmptyBag
    /\ nextUid = 1
    /\ everIds = {}
    /\ deleted = {}
    /\ lastOp = NoOp
    /\ plugin = "running"
    /\ undelivered = {}
    /\ probe = NoProbe

\* the store under its commands alone, with every input
NextStore ==
    \/ \E sender \in Senders, input \in AddInputs :
          Add(sender, input[1], input[2], "ok") /\ nextUid' <= StoreCreates + 1
    \/ \E sender \in Senders, countdown_id \in DeleteKeys(StoreCreates) :
          Delete(sender, countdown_id, "ok")
    \/ \E d \in Days : Tick(d)

SpecStore == Init /\ [][NextStore]_vars

\* the reminder task running beside the commands
Next ==
    \/ \E sender \in Senders, date_str \in ScanDates :
          Add(sender, "birthday", date_str, "ok") /\ nextUid' <= MaxCreates + 1
    \/ \E sender \in Senders, i \in 1..MaxCreates :
          Delete(sender, [kind |-> "id", id |-> i, name |-> ""], "ok")
    \/ \E d \in ScanDays : Tick(d)
    \/ ScanStart
    \/ ScanOwner
    \/ ScanRecord
    \/ Deliver("ok", "delivered")

Spec == Init /\ [][Next]_vars

\* __init__ (lines 18-23) in a new process, after the old one was killed
Restart ==
    /\ plugin = "crashed"
    /\ countdowns' = load_data(file)
    /\ plugin' = "running"
    /\ scan' = Idle
    /\ lastOp' = NoOp
    /\ UNCHANGED <<file, today, sent, nextUid, everIds, deleted, undelivered,
                   probe>>

\* every way a save may end
AllOutcomes == SaveOutcomes \cup CrashOutcomes

\* the commands over a data file that may fail, in a process that may be
\* killed inside save_data and started again
NextIO ==
    \/ \E sender \in Senders, out \in AllOutcomes :
          Add(sender, "birthday", D_019, out) /\ nextUid' <= MaxCreates + 1
    \/ \E sender \in Senders, i \in 1..MaxCreates, out \in AllOutcomes :
          Delete(sender, [kind |-> "id", id |-> i, name |-> ""], out)
    \/ Restart

SpecIO == Init /\ [][NextIO]_vars

\* line 450: user_key.split('_'), the pieces of s between its underscores
RECURSIVE Split(_)
Split(s) ==
    LET us == {i \in DOMAIN s : s[i] = "_"} IN
    IF us = {} THEN <<s>>
    ELSE LET i == CHOOSE j \in us : \A k \in us : j <= k
         IN <<SubSeq(s, 1, i - 1)>> \o Split(SubSeq(s, i + 1, Len(s)))

\* lines 450-455: the (user_id, group_id) send_reminder reads from a key
ParseKey(user_key) ==
    LET parts == Split(user_key) IN
    IF Len(parts) = 2 THEN <<parts[1], parts[2]>> ELSE <<parts[1], <<>> >>

\* lines 473-478: where a reminder goes, to the group when group_id is not
\* empty, else to the user
Target(user_id, group_id) ==
    IF group_id # <<>> THEN <<"group", group_id>> ELSE <<"user", user_id>>

\* the characters of the ids under test, and the ids: a sender has a user
\* id that is not empty, and a group id that is empty in a private chat
IdChars == {"a", "b", "_"}
Strings(n) == UNION {[1..k -> IdChars] : k \in 1..n}
UserIds == Strings(MaxIdLen)
GroupIds == Strings(MaxIdLen) \cup {<<>>}

\* a sender's pair is turned into a key (get_user_key) and the key read back
\* as send_reminder reads it
Probe(user_id, group_id) ==
    /\ probe' = [user_id |-> user_id, group_id |-> group_id,
                 key |-> get_user_key(user_id, group_id),
                 parsed |-> ParseKey(get_user_key(user_id, group_id))]
    /\ UNCHANGED <<countdowns, file, today, scan, sent, nextUid, everIds,
                   deleted, lastOp, plugin, undelivered>>

NextKeys == \E user_id \in UserIds, group_id \in GroupIds : Probe(user_id, group_id)

SpecKeys == Init /\ [][NextKeys]_vars

\* terminate: the store is saved and a line is logged; the reminder task is
\* left as it is
Terminate(out) ==
    /\ plugin = "running"
    /\ scan.pc \in {"idle", "sending"}
    /\ file' = save_data(countdowns, file, out)
    /\ plugin' = IF out \in CrashOutcomes THEN "crashed" ELSE "terminated"
    /\ UNCHANGED <<countdowns, today, scan, sent, nextUid, everIds, deleted,
                   lastOp, undelivered, probe>>

\* the sender of the commands that run beside the scheduler
SchedSender == << <<"a">>, <<>> >>

\* the content of a data file left by an earlier run or edited by hand: a
\* record whose date strptime rejects, then a record due 7 days after the
\* first day of the clock
StoredBad ==
    << [k |-> <<"a">>,
        v |-> << NewCountdown(1, "exam", D_0132, <<>>, 1),
                 NewCountdown(2, "birthday", D_019, <<>>, 2) >>] >>

\* the days of the clock beside the scheduler: 7 and 3 days before 2025-01-09
SchedDays == {Day0, Day0 + 4}

\* the data files the plugin may find when it starts
DataFiles ==
    {[state |-> "absent", data |-> <<>>], [state |-> "written", data |-> StoredBad]}

\* __init__: the store is what load_data reads
InitSched ==
    /\ file \in DataFiles
    /\ countdowns = load_data(file)
    /\ today = Day0
    /\ scan = Idle
    /\ sent = EmptyBag
    /\ nextUid = Cardinality(Uids(countdowns)) + 1
    /\ everIds = UNION {{<<countdowns[i].k, cd.id>> : cd \in Range(countdowns[i].v)} :
                          i \in DOMAIN countdowns}
    /\ deleted = {}
    /\ lastOp = NoOp
    /\ plugin = "running"
    /\ undelivered = {}
    /\ probe = NoProbe

\* the scheduler: scans over a loaded store, deliveries that may raise,
\* the commands of one owner, the clock and terminate
NextSched ==
    \/ \E date_str \in ScanDates :
          Add(SchedSender, "birthday", date_str, "ok") /\ nextUid' <= MaxCreates
    \/ \E i \in 1..MaxCreates :
          Delete(SchedSender, [kind |-> "id", id |-> i, name |-> ""], "ok")
    \/ \E d \in SchedDays : Tick(d)
    \/ ScanStart
    \/ ScanOwner
    \/ ScanRecord
    \/ \E delivery \in Deliveries : Deliver("ok", delivery)
    \/ Terminate("ok")

SpecSched == InitSched /\ [][NextSched]_vars

\* the event loop runs the reminder task whenever it can go on: a sleep
\* ends, a step of the scan is taken, an awaited delivery returns or raises
FairSched ==
    /\ InitSched
    /\ [][NextSched]_vars
    /\ WF_vars(ScanStart)
    /\ WF_vars(ScanOwner)
    /\ WF_vars(ScanRecord)
    /\ WF_vars(\E delivery \in Deliveries : Deliver("ok", delivery))

\* ------------------------------------------------------------- the claims
\* the list of the owner the scan is at
ScanList == countdowns[scan.ki].v

\* a step of the scan that takes the next record of the current list
EvaluatesRecord ==
    /\ scan.pc = "record"
    /\ scan' # scan
    /\ scan.li < Len(ScanList)

\* C1: for every record and every threshold, send_reminder is called at most
\* once for that pair, whatever the scans, the commands between them and the
\* clock do
C1_AtMostOnce == \A p \in BagToSet(sent) : CopiesIn(p, sent) <= 1

\* a record was reminded at two thresholds, once each
C1_Witness ==
    \E uid \in 1..MaxCreates :
        /\ BagIn(<<uid, 7>>, sent) /\ BagIn(<<uid, 3>>, sent)
        /\ C1_AtMostOnce

\* C2: a scan calls send_reminder for the record it evaluates if and only if
\* the record's days left (target date minus the scan's today) is one of the
\* configured thresholds and that threshold is not in the record's notified
\* list; the call is for that record and that number of days, and nothing
\* but such a step calls send_reminder (no catch-up of a missed threshold)
C2_ExactMatch ==
    [][/\ EvaluatesRecord =>
            LET cd       == ScanList[scan.li + 1]
                daysLeft == strptime(cd.target_date) - scan.today
                due      == /\ \E i \in DOMAIN reminder_days : reminder_days[i] = daysLeft
                            /\ \A i \in DOMAIN cd.notified_days :
                                   cd.notified_days[i] # ToString(daysLeft)
            IN IF due THEN sent' = sent (+) SetToBag({<<cd.uid, daysLeft>>})
                      ELSE sent' = sent
       /\ sent' # sent => EvaluatesRecord]_vars

\* a scan has just passed a record 6 days before its date, never reminded
\* (the 7-day threshold was missed), without calling send_reminder
C2_Witness ==
    /\ scan.pc = "record"
    /\ scan.li >= 1 /\ scan.li <= Len(ScanList)
    /\ LET cd == ScanList[scan.li]
       IN /\ scan.cd = cd.uid
          /\ strptime(cd.target_date) - scan.today = 6
          /\ cd.notified_days = <<>>
          /\ ~BagIn(<<cd.uid, 7>>, sent) /\ ~BagIn(<<cd.uid, 6>>, sent)


\* the key of a sender, and the records the store holds for a key
KeyOf(sender) == get_user_key(sender[1], sender[2])
RecordsOf(d, user_key) == IF HasKey(d, user_key) THEN Lookup(d, user_key) ELSE <<>>

\* C3: an add whose target date lies strictly before today fails with the
\* past-date message and changes neither the store (the owner's list, the
\* other owners' lists) nor the data file
C3_PastDateRejected ==
    [][\A sender \in Senders, input \in AddInputs :
          (/\ lastOp'.cmd = "add"
           /\ strptime(input[2]) # ValueError
           /\ strptime(input[2]) < today
           /\ Add(sender, input[1], input[2], "ok"))
          => /\ ~lastOp'.success
             /\ lastOp'.result = MsgPastDate
             /\ countdowns' = countdowns
             /\ file' = file]_vars

\* an add was refused for its past date while both owners hold records
C3_Witness ==
    /\ lastOp.cmd = "add" /\ lastOp.result = MsgPastDate
    /\ \A sender \in Senders : RecordsOf(countdowns, KeyOf(sender)) # <<>>
    /\ file = [state |-> "written", data |-> countdowns]

\* C4: no owner ever holds more than max_count records; an add with a valid
\* date that is not past succeeds (one more record for the owner) while the
\* owner holds fewer than max_count records, and otherwise fails with the
\* limit message and changes neither the store nor the data file
C4_Capacity ==
    /\ [](\A i \in DOMAIN countdowns : Len(countdowns[i].v) <= max_count)
    /\ [][\A sender \in Senders, input \in AddInputs :
            (/\ lastOp'.cmd = "add"
             /\ strptime(input[2]) # ValueError
             /\ strptime(input[2]) >= today
             /\ Add(sender, input[1], input[2], "ok"))
            => LET before == Len(RecordsOf(countdowns, KeyOf(sender)))
                   after  == Len(RecordsOf(countdowns', KeyOf(sender)))
               IN IF before < max_count
                  THEN lastOp'.success /\ after = before + 1
                  ELSE /\ ~lastOp'.success
                       /\ lastOp'.result = MsgLimit
                       /\ countdowns' = countdowns
                       /\ file' = file]_vars

\* an add was refused for the limit: an owner holds max_count records
C4_Witness ==
    /\ lastOp.cmd = "add" /\ lastOp.result = MsgLimit
    /\ \E i \in DOMAIN countdowns : Len(countdowns[i].v) = max_count

\* C5: a successful add never gives the new record an id that a record of
\* that owner had before, deleted records included
C5_FreshId ==
    [][(lastOp'.cmd = "add" /\ lastOp'.success /\ nextUid' = nextUid + 1)
         => \A i \in DOMAIN countdowns' :
               \A cd \in Range(countdowns'[i].v) :
                  cd.uid = nextUid => <<countdowns'[i].k, cd.id>> \notin everIds]_vars


\* the number of elements of a list of views with a name and a date string
CountOf(l, name, date_str) ==
    Cardinality({i \in DOMAIN l : l[i].name = name /\ l[i].target_date = date_str})

\* C6 as claimed: after a successful add, the owner's list holds exactly one
\* record with the name and the date of the add
C6_ExactlyOne ==
    [][\A sender \in Senders, input \in AddInputs :
          (lastOp'.cmd = "add" /\ lastOp'.success
             /\ Add(sender, input[1], input[2], "ok"))
          => CountOf(get_user_countdowns(countdowns', KeyOf(sender), today),
                     input[1], input[2]) = 1]_vars

\* C6 as amended: after a successful add, the owner's list holds exactly one
\* more record with the name and the date of the add than before (exactly
\* one only when there was none: the same name and date may be added twice),
\* and one more record in all
C6_OneMore ==
    [][\A sender \in Senders, input \in AddInputs :
          (lastOp'.cmd = "add" /\ lastOp'.success
             /\ Add(sender, input[1], input[2], "ok"))
          => LET before == get_user_countdowns(countdowns, KeyOf(sender), today)
                 after  == get_user_countdowns(countdowns', KeyOf(sender), today)
             IN /\ CountOf(after, input[1], input[2])
                     = CountOf(before, input[1], input[2]) + 1
                /\ Len(after) = Len(before) + 1]_vars

\* an add succeeded and the owner's list holds two records of a same name
\* and date
C6_Witness ==
    /\ lastOp.cmd = "add" /\ lastOp.success
    /\ \E sender \in Senders, input \in AddInputs :
          CountOf(get_user_countdowns(countdowns, KeyOf(sender), today),
                  input[1], input[2]) = 2

\* a key no command was sent under
UnknownKey == <<"z">>

\* C7: the list of an owner holds all the records of the owner, ordered by
\* target date as calendar dates, records of a same date by id; the list of
\* an unknown owner is empty
C7_SortedByDate ==
    \A user_key \in {KeyOf(sender) : sender \in Senders} \cup {UnknownKey} :
       LET l == get_user_countdowns(countdowns, user_key, today)
           date(i) == strptime(l[i].target_date)
       IN /\ ~HasKey(countdowns, user_key) => l = <<>>
          /\ Len(l) = Len(RecordsOf(countdowns, user_key))
          /\ {l[i].id : i \in DOMAIN l}
               = {cd.id : cd \in Range(RecordsOf(countdowns, user_key))}
          /\ \A i, j \in DOMAIN l :
                i < j => \/ date(i) < date(j)
                         \/ date(i) = date(j) /\ l[i].id < l[j].id

\* whether the owner of a delete holds a record the argument names
Names_Id(l, countdown_id) ==
    \E i \in DOMAIN l : countdown_id.kind = "id" /\ l[i].id = countdown_id.id
Names_Name(l, countdown_id) ==
    \E i \in DOMAIN l : countdown_id.kind = "name" /\ l[i].name = countdown_id.name

Records(d) == UNION {Range(d[i].v) : i \in DOMAIN d}

\* the step of a scan that returns from send_reminder and marks the record
Marks == scan.pc = "sending" /\ scan' # scan

\* C9: when the record a scan is delivering for was deleted meanwhile, the
\* scan goes on without an error, the mark changes nothing in the store and
\* the save it makes does not hold the record; a deleted record is never in
\* the store (so in no list) nor in the data file again
C9_DeleteMidScan ==
    /\ [](deleted \cap (Uids(countdowns) \cup Uids(file.data)) = {})
    /\ [][(Marks /\ scan.cd \in deleted)
            => /\ scan'.pc = "record" /\ ~scan'.failed
               /\ countdowns' = countdowns
               /\ file' = [state |-> "written", data |-> countdowns]]_vars

\* a scan has marked a record that a command deleted during the delivery
C9_Witness ==
    /\ scan.pc = "record"
    /\ scan.cd \in deleted
    /\ BagIn(<<scan.cd, scan.days_left>>, sent)
    /\ scan.cd \notin Uids(countdowns) \cup Uids(file.data)

IsPrefix(s, t) == Len(s) <= Len(t) /\ SubSeq(t, 1, Len(s)) = s

\* C10: the notified list of a record is empty when the record is created,
\* only gains elements while the record is in the store, and never holds a
\* threshold twice
C10_NotifiedGrows ==
    /\ [](\A cd \in Records(countdowns) :
             Cardinality(Range(cd.notified_days)) = Len(cd.notified_days))
    /\ [][\A new \in Records(countdowns') :
             IF new.uid \in Uids(countdowns)
             THEN \A old \in Records(countdowns) :
                     old.uid = new.uid
                       => IsPrefix(old.notified_days, new.notified_days)
             ELSE new.notified_days = <<>>]_vars

\* a record of the store was marked at two thresholds
C10_Witness ==
    \E cd \in Records(countdowns) :
        Len(cd.notified_days) = 2 /\ Cardinality(Range(cd.notified_days)) = 2

\* a step of a command that changed the store and returned
Mutates ==
    /\ plugin = "running"
    /\ plugin' = "running"
    /\ scan' = scan
    /\ countdowns' # countdowns

\* the data file holds the store
Persisted(f, d) == f = [state |-> "written", data |-> d]

\* C11: a create or a delete whose save_data call failed is never reported
\* to the caller as a success
C11_FailureReported ==
    [][(Mutates /\ ~Persisted(file', countdowns')) => ~lastOp'.success]_vars

\* the record of the store with identity uid carries the mark of a threshold
Marked(d, uid, days_left) ==
    \A cd \in Records(d) :
       cd.uid = uid => ToString(days_left) \in Range(cd.notified_days)

\* C12: whenever send_reminder has been called for a record and a threshold,
\* the threshold is already in the notified list of the record: there is no
\* state in which the delivery has begun and the mark is missing
C12_MarkedBeforeDelivery ==
    \A p \in BagToSet(sent) : Marked(countdowns, p[1], p[2])

\* the step that ends a scan, by exhaustion or by an exception
ScanEnds == scan.pc # "idle" /\ scan'.pc = "idle" /\ plugin # "crashed"

\* the records that were in the store from the beginning of the scan to its
\* end, are at one of the thresholds on the day of the scan, and leave the
\* scan without the mark of that threshold
Missed ==
    {cd \in Records(countdowns') :
        /\ cd.uid \in scan.present
        /\ strptime(cd.target_date) # ValueError
        /\ LET days_left == strptime(cd.target_date) - scan.today
           IN Eligible(days_left, cd.notified_days)}

\* C13: a scan that met an error on one record (a delivery that raised, a
\* stored date that does not parse) still evaluates every other record: it
\* never ends, failed, with a due record left without its reminder
C13_ErrorIsolated ==
    [][(ScanEnds /\ scan'.failed) => Missed = {}]_vars

\* C14: a delivery that raised leaves the threshold in the notified list of
\* the record, in the store (for good) and in the data file the scan then
\* writes, and send_reminder is never called again for that record and
\* threshold
C14_FailedDeliveryMarked ==
    /\ [](\A p \in undelivered :
            /\ Marked(countdowns, p[1], p[2])
            /\ CopiesIn(p, sent) = 1)
    /\ [][undelivered' # undelivered
            => /\ Persisted(file', countdowns')
               /\ \A p \in undelivered' \ undelivered :
                     Marked(file'.data, p[1], p[2])]_vars

\* a later scan is at a record whose delivery for today's threshold raised:
\* it reads the mark, in the store and in the file, and sends nothing
C14_Witness ==
    \E p \in undelivered :
       /\ p[1] \in Uids(countdowns) \cap Uids(file.data)
       /\ scan.pc = "record"
       /\ scan.cd = p[1]
       /\ scan.days_left = p[2]
       /\ ToString(p[2]) \in Range(scan.notified)
       /\ CopiesIn(p, sent) = 1

\* C15: after a scan that failed as a whole, the task waits the backoff of
\* 5 minutes, not the interval of one hour, before the next scan
C15_BackoffAfterFailure ==
    (scan.pc = "idle" /\ scan.failed) => scan.sleep = Backoff

\* C16: unless terminate is called, the reminder task is for ever back
\* between two scans and for ever starting another scan, whether its scans
\* fail or not
C16_LoopNeverExits ==
    \/ <>(plugin # "running")
    \/ ([]<>(scan.pc = "idle") /\ []<>(scan.pc = "owner"))

\* a scan failed and the task is asleep, to scan again
C16_Witness ==
    /\ plugin = "running"
    /\ scan.pc = "idle"
    /\ scan.failed
    /\ scan.sleep = Interval

\* C17: once terminate has been handled, no scan starts and send_reminder
\* is not called any more
C17_StoppedAfterTerminate ==
    [][plugin = "terminated"
         => /\ ~(scan.pc = "idle" /\ scan'.pc # "idle")
            /\ sent' = sent]_vars

\* the step in which the process is killed inside save_data
Crashes == plugin = "running" /\ plugin' = "crashed"

\* C18: when the process is killed inside save_data, what load_data reads
\* from the file afterwards is the whole store of before the save (as the
\* file or the memory held it) or the whole store being saved, never less
C18_CrashKeepsFile ==
    [][Crashes => load_data(file') \in {load_data(file), countdowns, countdowns'}]_vars

\* C19: whatever commands ran while a scan was suspended in a delivery, the
\* scan ends with every record that was in the store from its beginning to
\* its end, and due on its day, reminded: it is neither aborted nor made to
\* skip such a record
C19_ScanComplete ==
    [][ScanEnds => Missed = {}]_vars

\* C20: the key of a (user_id, group_id) pair is the key of no other pair,
\* send_reminder reads the same pair back from it, and so the reminder goes
\* to the group, or without a group the user, the record was created from
C20_KeyRoundTrip ==
    probe # NoProbe =>
      /\ \A user_id \in UserIds, group_id \in GroupIds :
            <<user_id, group_id>> # <<probe.user_id, probe.group_id>>
              => get_user_key(user_id, group_id) # probe.key
      /\ probe.parsed = <<probe.user_id, probe.group_id>>
      /\ Target(probe.parsed[1], probe.parsed[2])
           = Target(probe.user_id, probe.group_id)

====
